---- MODULE Spec2Model ----
(***************************************************************************)
(* Model of examples/v4l2grab.rs: a single-threaded V4L2 capture program.  *)
(* The program is the sequence of statements of main(); the device driver  *)
(* behind v4l2_open / v4l2_ioctl / v4l2_mmap / v4l2_munmap / v4l2_close    *)
(* and the file system behind the frame sink are the environment, whose    *)
(* answers are drawn nondeterministically.                                 *)
(***************************************************************************)
EXTENDS Integers, Sequences, FiniteSets, TLC

\* ---- bounds of the model -------------------------------------------------
MaxCount == 3      \* largest buffer count the driver writes back in REQBUFS
MaxShort == 1      \* most bytes a dequeued frame is short of its buffer's length
MaxRetry == 1      \* most EINTR/EAGAIN answers in a row to one xioctl call
MaxEnum  == 1      \* most iterations of the frame-size loop past the driver's list
NumSizes == 1      \* number of discrete frame sizes the driver has

\* ---- program constants ---------------------------------------------------
ReqWidth   == 640
ReqHeight  == 480
ReqCount   == 2
FrameCount == 20

V4L2_PIX_FMT_RGB24 == "RGB3"

\* ---- the environment's answers ------------------------------------------
\* errno values v4l2_ioctl can leave behind when it returns -1
IoctlErrnos == {"EINTR", "EAGAIN", "EIO"}

\* (return value, errno) pairs of one v4l2_ioctl call
IoctlAnswers == {[r |-> 0, e |-> "none"]} \cup {[r |-> -1, e |-> x] : x \in IoctlErrnos}

\* formats the driver may write back into fmt on a successful VIDIOC_S_FMT
DriverFormats ==
    { [width |-> 640, height |-> 480, pixelformat |-> "RGB3"],
      [width |-> 320, height |-> 240, pixelformat |-> "RGB3"],
      [width |-> 640, height |-> 480, pixelformat |-> "YUYV"] }

Slots == 0 .. MaxCount

VARIABLES
    pc,          \* position of main()
    fdOpen,      \* the descriptor returned by v4l2_open is open
    r,           \* xioctl: local r, the last value returned by v4l2_ioctl
    errno,       \* the thread's errno
    retries,     \* xioctl: number of `continue`s taken in the current call
    idx,         \* main: idx, iterations of the frame-size loop
    fstype,      \* main: framesize.type_
    fmt,         \* main: fmt.fmt.pix (width, height, pixelformat)
    req_count,   \* main: req.count
    buffers,     \* main: Vec<buffer>, each [start, length]
    i,           \* main: loop variable of the enqueue loop / capture loop
    buf,         \* main: the v4l2_buffer of the current iteration
    devCount,    \* driver: number of buffers allocated by REQBUFS
    devLen,      \* driver: length in bytes of each allocated buffer
    devFmt,      \* driver: the format it set on VIDIOC_S_FMT, NoFormat before
    owner,       \* driver: per slot, "free" | "device" | "user"
    streaming,   \* driver: streaming flag
    mapped,      \* kernel: set of slots currently mapped into the process
    unmaps,      \* history: per slot, number of v4l2_munmap calls
    issued,      \* history: set of requests issued so far
    failed,      \* history: first request for which xioctl returned -1
    panic,       \* history: which panic!/unwrap/bounds check ended main
    header,      \* sink: the header in the file of the current frame
    dqCount,     \* history: calls of xioctl(VIDIOC_DQBUF)
    qCount       \* history: calls of xioctl(VIDIOC_QBUF) in the capture loop

vars == << pc, fdOpen, r, errno, retries, idx, fstype, fmt, req_count, buffers,
           i, buf, devCount, devLen, owner, streaming, mapped, unmaps, issued,
           failed, panic, header, dqCount, qCount, devFmt >>

\* ---- xioctl ---------------------------------------------------------------
\* a retry test that forgets EAGAIN
Retryable_OnlyEINTR(rv, e) == rv = -1 /\ e = "EINTR"

\* the condition of the `if` in xioctl's loop: true = `continue`
Retryable(rv, e) == rv = -1 /\ ((e = "EINTR") \/ (e = "EAGAIN"))

\* positions of main() that are inside a call of xioctl
IoctlPcs == { "enum_first", "enum_next", "s_fmt", "reqbufs", "querybuf",
              "qbuf_all", "streamon", "dqbuf", "qbuf", "streamoff" }

\* the request issued at each such position
RequestAt(p) ==
    CASE p = "enum_first" -> "ENUM_FRAMESIZES"
      [] p = "enum_next"  -> "ENUM_FRAMESIZES"
      [] p = "s_fmt"      -> "S_FMT"
      [] p = "reqbufs"    -> "REQBUFS"
      [] p = "querybuf"   -> "QUERYBUF"
      [] p = "qbuf_all"   -> "QBUF"
      [] p = "streamon"   -> "STREAMON"
      [] p = "dqbuf"      -> "DQBUF"
      [] p = "qbuf"       -> "QBUF"
      [] p = "streamoff"  -> "STREAMOFF"

\* the driver's format before any VIDIOC_S_FMT has succeeded: not known
NoFormat == [width |-> 0, height |-> 0, pixelformat |-> "none"]

\* a file into which no header has been written
NoHeader == << >>

ZeroedBuf == [index |-> 0, bytesused |-> 0, length |-> 0]

Init ==
    /\ pc = "open"
    /\ fdOpen = FALSE
    /\ r = 0
    /\ errno = "none"
    /\ retries = 0
    /\ idx = 0
    /\ fstype = "zero"
    /\ fmt = [width |-> ReqWidth, height |-> ReqHeight, pixelformat |-> V4L2_PIX_FMT_RGB24]
    /\ req_count = ReqCount
    /\ buffers = << >>
    /\ i = 0
    /\ buf = ZeroedBuf
    /\ devCount = 0
    /\ devLen = 0
    /\ devFmt = NoFormat
    /\ owner = [s \in Slots |-> "free"]
    /\ streaming = FALSE
    /\ mapped = {}
    /\ unmaps = [s \in Slots |-> 0]
    /\ issued = {}
    /\ failed = "none"
    /\ panic = "none"
    /\ header = NoHeader
    /\ dqCount = 0
    /\ qCount = 0

\* v4l2_open: fd == -1 panics, otherwise main goes on with the descriptor
Open ==
    /\ pc = "open"
    /\ \E ok \in BOOLEAN :
         IF ok
         THEN /\ fdOpen' = TRUE
              /\ pc' = "enum_first"
              /\ errno' = errno
         ELSE /\ fdOpen' = FALSE
              /\ pc' = "panicked"
              /\ errno' = "EIO"
    /\ UNCHANGED << r, retries, idx, fstype, fmt, req_count, buffers, i, buf,
                    devCount, devLen, owner, streaming, mapped, unmaps, issued,
                    failed >>
    /\ panic' = (IF pc' = "panicked" THEN "open" ELSE panic)
    /\ UNCHANGED << header, dqCount, qCount, devFmt >>

\* xioctl: v4l2_ioctl returned -1 with EINTR or EAGAIN, the loop continues
XioctlContinue ==
    /\ pc \in IoctlPcs
    /\ retries < MaxRetry
    /\ \E a \in IoctlAnswers :
         /\ Retryable(a.r, a.e)
         /\ r' = a.r
         /\ errno' = a.e
    /\ retries' = retries + 1
    /\ issued' = issued \cup {RequestAt(pc)}
    /\ UNCHANGED << pc, fdOpen, idx, fstype, fmt, req_count, buffers, i, buf,
                    devCount, devLen, owner, streaming, mapped, unmaps, failed >>
    /\ UNCHANGED << panic, header, dqCount, qCount, devFmt >>

\* xioctl: v4l2_ioctl answered a, the loop breaks and xioctl returns a.r
XioctlReturns(a) ==
    /\ ~Retryable(a.r, a.e)
    /\ r' = a.r
    /\ errno' = (IF a.r = -1 THEN a.e ELSE errno)
    /\ retries' = 0
    /\ issued' = issued \cup {RequestAt(pc)}

\* the requests whose failure the caller is not meant to ignore
\* (every request but the advisory frame-size enumeration)
NoteFailure(a) ==
    failed' = (IF a.r = -1 /\ failed = "none" THEN RequestAt(pc) ELSE failed)

\* ---- frame-size enumeration (main, lines 86-127) --------------------------
\* framesize.index as the driver sees it in the request made when idx = k:
\* framesize is zeroed at line 87 and its index is never assigned
FramesizeIndex(k) == 0

\* the driver answers VIDIOC_ENUM_FRAMESIZES for an entry of its list only
HasFramesize(n) == n < NumSizes

\* first VIDIOC_ENUM_FRAMESIZES and the branch on framesize.type_
EnumFirst ==
    /\ pc = "enum_first"
    /\ \E a \in IoctlAnswers, t \in {"DISCRETE", "STEPWISE"} :
         /\ XioctlReturns(a)
         /\ a.r = 0 => HasFramesize(FramesizeIndex(idx))
         /\ fstype' = (IF a.r = 0 THEN t ELSE fstype)
    /\ IF fstype' = "DISCRETE"
       THEN idx' = idx + 1 /\ pc' = "enum_next"
       ELSE idx' = idx /\ pc' = "s_fmt"
    /\ UNCHANGED << fdOpen, fmt, req_count, buffers, i, buf, devCount, devLen,
                    owner, streaming, mapped, unmaps, failed >>
    /\ UNCHANGED << panic, header, dqCount, qCount, devFmt >>

\* the xioctl inside the discrete loop: -1 breaks, anything else iterates
EnumNext ==
    /\ pc = "enum_next"
    /\ \E a \in IoctlAnswers :
         /\ XioctlReturns(a)
         /\ a.r = 0 => HasFramesize(FramesizeIndex(idx))
         /\ IF a.r = -1
            THEN idx' = idx /\ pc' = "s_fmt"
            ELSE idx < NumSizes + MaxEnum /\ idx' = idx + 1 /\ pc' = "enum_next"
    /\ UNCHANGED << fdOpen, fstype, fmt, req_count, buffers, i, buf, devCount,
                    devLen, owner, streaming, mapped, unmaps, failed >>
    /\ UNCHANGED << panic, header, dqCount, qCount, devFmt >>

\* ---- format negotiation (main, lines 129-205) -----------------------------
\* a negotiation that takes whatever layout the driver answers
FormatAccepted_Any(f) == f.pixelformat \in {"RGB3", "YUYV"}

\* the test of line 195, negated: FALSE = "Can't proceed", panic
FormatAccepted(f) == f.pixelformat = V4L2_PIX_FMT_RGB24

SetFormat ==
    /\ pc = "s_fmt"
    /\ \E a \in IoctlAnswers, f \in DriverFormats :
         /\ XioctlReturns(a)
         /\ NoteFailure(a)
         /\ fmt' = (IF a.r = 0 THEN f ELSE fmt)
         /\ devFmt' = (IF a.r = 0 THEN f ELSE devFmt)
    /\ pc' = (IF FormatAccepted(fmt') THEN "reqbufs" ELSE "panicked")
    /\ UNCHANGED << fdOpen, idx, fstype, req_count, buffers, i, buf, devCount,
                    devLen, owner, streaming, mapped, unmaps >>
    /\ panic' = (IF pc' = "panicked" THEN "format" ELSE panic)
    /\ UNCHANGED << header, dqCount, qCount >>

\* ---- buffer pool (main, lines 207-288) ------------------------------------
\* a main that forgets the enqueue loop
AfterMapLoop_SkipQueue(bs) == "streamon"

\* where main goes once the mapping loop `for n_buffers in 0..req.count` ends:
\* the enqueue loop `for i in 0..buffers.len()`, if it has an iteration
AfterMapLoop(bs) == IF Len(bs) > 0 THEN "qbuf_all" ELSE "streamon"

\* bytes of one RGB24 image of format f, 3 per pixel: the driver sizes each
\* buffer for the format it delivers
ImageBytes(f) == f.width * f.height * 3

\* VIDIOC_REQBUFS: on success the driver writes the allocated count back
ReqBufs ==
    /\ pc = "reqbufs"
    /\ \E a \in IoctlAnswers, c \in 0 .. MaxCount :
         /\ XioctlReturns(a)
         /\ NoteFailure(a)
         /\ IF a.r = 0
            THEN req_count' = c /\ devCount' = c /\ devLen' = ImageBytes(fmt)
            ELSE UNCHANGED << req_count, devCount, devLen >>
    /\ pc' = (IF req_count' > 0 THEN "querybuf" ELSE AfterMapLoop(buffers))
    /\ UNCHANGED << fdOpen, idx, fstype, fmt, buffers, i, buf, owner,
                    streaming, mapped, unmaps >>
    /\ UNCHANGED << panic, header, dqCount, qCount, devFmt >>

\* a mapping loop that queries slot 0 on every iteration
NextIndex_Zero(bs) == 0

\* n_buffers, the loop variable of the mapping loop: one iteration per push
NextIndex(bs) == Len(bs)

\* VIDIOC_QUERYBUF for index n_buffers; a failure leaves the zeroed length and
\* offset in buf
QueryBuf ==
    /\ pc = "querybuf"
    /\ \E a \in IoctlAnswers :
         /\ XioctlReturns(a)
         /\ NoteFailure(a)
         /\ a.r = 0 => NextIndex(buffers) < devCount
         /\ buf' = [index |-> NextIndex(buffers), bytesused |-> 0,
                    length |-> IF a.r = 0 THEN devLen ELSE 0]
    /\ pc' = "mmap"
    /\ UNCHANGED << fdOpen, idx, fstype, fmt, req_count, buffers, i, devCount,
                    devLen, owner, streaming, mapped, unmaps >>
    /\ UNCHANGED << panic, header, dqCount, qCount, devFmt >>

\* v4l2_mmap of buf.length bytes; MAP_FAILED panics, otherwise the buffer is
\* pushed.  A mapping of length 0 always fails (EINVAL).
Mmap ==
    /\ pc = "mmap"
    /\ \E ok \in BOOLEAN :
         /\ ok => buf.length > 0
         /\ IF ok
            THEN /\ buffers' = Append(buffers, [start |-> buf.index, length |-> buf.length])
                 /\ mapped' = mapped \cup {buf.index}
                 /\ errno' = errno
                 /\ pc' = (IF Len(buffers') < req_count THEN "querybuf"
                                                        ELSE AfterMapLoop(buffers'))
            ELSE /\ UNCHANGED << buffers, mapped >>
                 /\ errno' = "ENOMEM"
                 /\ pc' = "panicked"
    /\ i' = 0
    /\ buf' = ZeroedBuf
    /\ UNCHANGED << fdOpen, r, retries, idx, fstype, fmt, req_count,
                    devCount, devLen, owner, streaming, unmaps, issued, failed >>
    /\ panic' = (IF pc' = "panicked" THEN "mmap" ELSE panic)
    /\ UNCHANGED << header, dqCount, qCount, devFmt >>

\* ---- the driver's queue ---------------------------------------------------
\* the driver accepts VIDIOC_QBUF for an allocated slot that is not queued
CanQueue(s) == s < devCount /\ owner[s] # "device"

\* ---- enqueue all, stream on (main, lines 290-329) -------------------------
QbufAll ==
    /\ pc = "qbuf_all"
    /\ \E a \in IoctlAnswers :
         /\ XioctlReturns(a)
         /\ NoteFailure(a)
         /\ a.r = 0 => CanQueue(i)
         /\ owner' = (IF a.r = 0 THEN [owner EXCEPT ![i] = "device"] ELSE owner)
    /\ buf' = ZeroedBuf
    /\ i' = (IF i + 1 < Len(buffers) THEN i + 1 ELSE 0)
    /\ pc' = (IF i + 1 < Len(buffers) THEN "qbuf_all" ELSE "streamon")
    /\ UNCHANGED << fdOpen, idx, fstype, fmt, req_count, buffers, devCount,
                    devLen, streaming, mapped, unmaps >>
    /\ UNCHANGED << panic, header, dqCount, qCount, devFmt >>

StreamOn ==
    /\ pc = "streamon"
    /\ \E a \in IoctlAnswers :
         /\ XioctlReturns(a)
         /\ NoteFailure(a)
         /\ streaming' = (IF a.r = 0 THEN TRUE ELSE streaming)
    /\ i' = 0
    /\ pc' = (IF 0 < FrameCount THEN "dqbuf" ELSE "streamoff")
    /\ UNCHANGED << fdOpen, idx, fstype, fmt, req_count, buffers, buf,
                    devCount, devLen, owner, mapped, unmaps >>
    /\ UNCHANGED << panic, header, dqCount, qCount, devFmt >>

\* ---- capture loop (main, lines 331-371) -----------------------------------
\* bytesused values the driver reports for a buffer of len bytes: a full
\* frame, a frame short by up to MaxShort bytes, or an empty one
BytesUsedAnswers(len) == {0} \cup { len - k : k \in 0 .. MaxShort }

\* the length of the slice main hands to write_all (line 359)
SliceLen(b) == b.bytesused

\* VIDIOC_DQBUF on a zeroed buf: the driver hands out a filled, queued slot
\* with its bytesused; a failure leaves buf zeroed
Dqbuf ==
    /\ pc = "dqbuf"
    /\ \E a \in IoctlAnswers, s \in Slots, n \in BytesUsedAnswers(devLen) :
         /\ XioctlReturns(a)
         /\ NoteFailure(a)
         /\ IF a.r = 0
            THEN /\ streaming
                 /\ owner[s] = "device"
                 /\ n >= 0 /\ n <= devLen
                 /\ buf' = [index |-> s, bytesused |-> n, length |-> 0]
                 /\ owner' = [owner EXCEPT ![s] = "user"]
            ELSE /\ s = 0 /\ n = 0
                 /\ buf' = ZeroedBuf
                 /\ owner' = owner
    /\ pc' = "sink_create"
    /\ UNCHANGED << fdOpen, idx, fstype, fmt, req_count, buffers, i, devCount,
                    devLen, streaming, mapped, unmaps >>
    /\ dqCount' = dqCount + 1
    /\ UNCHANGED << panic, header, qCount, devFmt >>

\* fs::File::create(..).unwrap()
SinkCreate ==
    /\ pc = "sink_create"
    /\ \E ok \in BOOLEAN :
         /\ pc' = (IF ok THEN "sink_header" ELSE "panicked")
         /\ errno' = (IF ok THEN errno ELSE "EIO")
    /\ UNCHANGED << fdOpen, r, retries, idx, fstype, fmt, req_count, buffers,
                    i, buf, devCount, devLen, owner, streaming, mapped, unmaps,
                    issued, failed >>
    /\ panic' = (IF pc' = "panicked" THEN "create" ELSE panic)
    /\ header' = NoHeader
    /\ UNCHANGED << dqCount, qCount, devFmt >>

\* a header that prints the size main asked for
HeaderOf_Requested(f) == << "P6", ReqWidth, ReqHeight, 255 >>

\* the fields of format!("P6\n{} {} 255\n", fmt.fmt.pix.width, fmt.fmt.pix.height)
HeaderOf(f) == << "P6", f.width, f.height, 255 >>

\* write!(fout, "P6\n{} {} 255\n", ..): the Result is dropped
SinkHeader ==
    /\ pc = "sink_header"
    /\ \E ok \in BOOLEAN :
         /\ errno' = (IF ok THEN errno ELSE "EIO")
         /\ header' = (IF ok THEN HeaderOf(fmt) ELSE header)
    /\ pc' = "sink_data"
    /\ UNCHANGED << panic, dqCount, qCount, devFmt >>
    /\ UNCHANGED << fdOpen, r, retries, idx, fstype, fmt, req_count, buffers,
                    i, buf, devCount, devLen, owner, streaming, mapped, unmaps,
                    issued, failed >>

\* buffers[buf.index] (bounds-checked), then write_all(slice).unwrap(); fout
\* is dropped at the end of the block
SinkData ==
    /\ pc = "sink_data"
    /\ IF buf.index >= Len(buffers)
       THEN /\ pc' = "panicked"
            /\ panic' = "index"
            /\ errno' = errno
       ELSE \E ok \in BOOLEAN :
              /\ pc' = (IF ok THEN "qbuf" ELSE "panicked")
              /\ panic' = (IF ok THEN panic ELSE "write")
              /\ errno' = (IF ok THEN errno ELSE "EIO")
    /\ header' = NoHeader
    /\ UNCHANGED << dqCount, qCount, devFmt >>
    /\ UNCHANGED << fdOpen, r, retries, idx, fstype, fmt, req_count, buffers,
                    i, buf, devCount, devLen, owner, streaming, mapped, unmaps,
                    issued, failed >>

\* a teardown that closes the descriptor without unmapping
AfterStreamOff_NoUnmap(bs) == "close"

\* where main goes after the VIDIOC_STREAMOFF call: the unmap loop, if any
AfterStreamOff(bs) == IF Len(bs) > 0 THEN "munmap" ELSE "close"

\* a capture loop that runs one iteration too many
CaptureLoopContinues_OffByOne(k) == k + 1 <= FrameCount

\* `for i in 0..20`: after iteration k there is another one
CaptureLoopContinues(k) == k + 1 < FrameCount

\* VIDIOC_QBUF of the buf the dequeue left, then the next iteration with a
\* freshly zeroed buf
Qbuf ==
    /\ pc = "qbuf"
    /\ \E a \in IoctlAnswers :
         /\ XioctlReturns(a)
         /\ NoteFailure(a)
         /\ a.r = 0 => CanQueue(buf.index)
         /\ owner' = (IF a.r = 0 THEN [owner EXCEPT ![buf.index] = "device"] ELSE owner)
    /\ buf' = ZeroedBuf
    /\ i' = (IF CaptureLoopContinues(i) THEN i + 1 ELSE 0)
    /\ pc' = (IF CaptureLoopContinues(i) THEN "dqbuf" ELSE "streamoff")
    /\ UNCHANGED << fdOpen, idx, fstype, fmt, req_count, buffers,
                    devCount, devLen, streaming, mapped, unmaps >>
    /\ qCount' = qCount + 1
    /\ UNCHANGED << panic, header, dqCount, devFmt >>

\* ---- teardown (main, lines 373-400) ---------------------------------------
\* VIDIOC_STREAMOFF: on success the driver stops and drops its queues
StreamOff ==
    /\ pc = "streamoff"
    /\ \E a \in IoctlAnswers :
         /\ XioctlReturns(a)
         /\ NoteFailure(a)
         /\ IF a.r = 0
            THEN streaming' = FALSE /\ owner' = [s \in Slots |-> "free"]
            ELSE UNCHANGED << streaming, owner >>
    /\ i' = 0
    /\ pc' = AfterStreamOff(buffers)
    /\ UNCHANGED << fdOpen, idx, fstype, fmt, req_count, buffers, buf,
                    devCount, devLen, mapped, unmaps >>
    /\ UNCHANGED << panic, header, dqCount, qCount, devFmt >>

\* one iteration of `for buf in buffers { v4l2_munmap(buf.start, buf.length) }`
Munmap ==
    /\ pc = "munmap"
    /\ LET s == buffers[i + 1].start
       IN /\ mapped' = mapped \ {s}
          /\ unmaps' = [unmaps EXCEPT ![s] = @ + 1]
    /\ i' = (IF i + 1 < Len(buffers) THEN i + 1 ELSE 0)
    /\ pc' = (IF i + 1 < Len(buffers) THEN "munmap" ELSE "close")
    /\ UNCHANGED << fdOpen, r, errno, retries, idx, fstype, fmt, req_count,
                    buffers, buf, devCount, devLen, owner, streaming, issued,
                    failed >>
    /\ UNCHANGED << panic, header, dqCount, qCount, devFmt >>

\* v4l2_close(fd), end of main
Close ==
    /\ pc = "close"
    /\ fdOpen' = FALSE
    /\ pc' = "done"
    /\ UNCHANGED << r, errno, retries, idx, fstype, fmt, req_count, buffers,
                    i, buf, devCount, devLen, owner, streaming, mapped, unmaps,
                    issued, failed >>
    /\ UNCHANGED << panic, header, dqCount, qCount, devFmt >>

Next ==
    \/ Open
    \/ XioctlContinue
    \/ EnumFirst
    \/ EnumNext
    \/ SetFormat
    \/ ReqBufs
    \/ QueryBuf
    \/ Mmap
    \/ QbufAll
    \/ StreamOn
    \/ Dqbuf
    \/ SinkCreate
    \/ SinkHeader
    \/ SinkData
    \/ Qbuf
    \/ StreamOff
    \/ Munmap
    \/ Close

Spec == Init /\ [][Next]_vars

TypeOK ==
    /\ retries \in 0 .. MaxRetry
    /\ Len(buffers) <= MaxCount
    /\ i \in 0 .. FrameCount

\* ---- vocabulary of the properties ----------------------------------------
Transient == {"EINTR", "EAGAIN"}

Ended == pc \in {"done", "panicked"}

TeardownPcs == {"streamoff", "munmap", "close", "done"}

\* the slots main mapped successfully
MappedEver == { buffers[k].start : k \in 1 .. Len(buffers) }

\* the panic of line 285 (MAP_FAILED) is the only place errno becomes ENOMEM
MapFailed == pc = "panicked" /\ errno = "ENOMEM"

\* C1: in the capture loop a buffer is read by the sink only while it is
\* user-owned (Drained), the buffer handed to the re-enqueue is a drained one
\* (never one the device already owns), and no drained buffer is still
\* un-requeued when the next dequeue is issued.
C1_OwnershipDiscipline ==
    /\ (pc = "sink_data" /\ buf.index < Len(buffers)) => owner[buf.index] = "user"
    /\ pc = "qbuf" => owner[buf.index] = "user"
    /\ pc = "dqbuf" => \A s \in Slots : owner[s] # "user"

\* C2: once xioctl has returned -1 for set-format, request-buffers,
\* query-buffer, enqueue, stream-on, dequeue or stream-off, the program is
\* past the capture steps: it only tears down or has ended.
C2_FailureIsFatal ==
    failed # "none" => pc \in TeardownPcs \cup {"panicked"}

\* C3: teardown runs stream-off, then the unmap of every mapped buffer, then
\* close; nothing is issued on a closed descriptor and no buffer is read or
\* queued once a buffer has been unmapped.
C3_TeardownOrder ==
    /\ pc \in {"munmap", "close", "done"} => "STREAMOFF" \in issued
    /\ pc \in {"close", "done"} => mapped = {}
    /\ (~fdOpen) => pc \in {"open", "panicked", "done"}
    /\ (pc = "panicked" /\ ~fdOpen) => issued = {}
    /\ \A s \in Slots : unmaps[s] > 0 => pc \in {"munmap", "close", "done"}

C3_Witness ==
    pc = "done" /\ ~fdOpen /\ Len(buffers) >= 2 /\ mapped = {} /\ failed = "none"

\* C4: when the program has ended, by a panic as well as by returning from
\* main, the descriptor has been closed and a stream that was on has been
\* sent stream-off.
C4_TeardownOnFailure ==
    Ended => (~fdOpen /\ (streaming => "STREAMOFF" \in issued))

\* C5: when v4l2_mmap fails for buffer k, buffers 0..k-1 are no longer mapped
\* when the error propagates.
C5_NoLeakOnPartialMap ==
    MapFailed => mapped = {}

\* C6: every successfully mapped buffer is unmapped exactly once by the time
\* the program ends, however it ends, and never more than once.
C6_UnmapExactlyOnce ==
    /\ \A s \in Slots : unmaps[s] <= 1
    /\ Ended => \A s \in MappedEver : unmaps[s] = 1

\* C7: when fmt carries a pixel layout other than RGB24 after set-format, the
\* request-buffers ioctl is never issued.
C7_NoBuffersOnLayoutRejection ==
    fmt.pixelformat # V4L2_PIX_FMT_RGB24 =>
        (pc = "panicked" /\ "REQBUFS" \notin issued /\ devCount = 0)

C7_Witness ==
    pc = "panicked" /\ fmt.pixelformat = "YUYV" /\ "S_FMT" \in issued

\* C8: xioctl stays in its loop exactly on -1 with EINTR or EAGAIN, and the
\* value it returns is never a -1 whose errno is EINTR or EAGAIN.
C8_XioctlAbsorbsTransient ==
    /\ (retries = 0 /\ r = -1) => errno \notin Transient
    /\ retries > 0 => (r = -1 /\ errno \in Transient)

\* a request that succeeded after an EAGAIN answer was retried
C8_Witness ==
    pc = "reqbufs" /\ retries = 0 /\ r = 0 /\ errno = "EAGAIN"

\* C9: no dequeue and no re-enqueue of the capture loop is issued while the
\* streaming flag is false, and the flag is true only after a stream-on.
C9_StreamingFlag ==
    /\ streaming => "STREAMON" \in issued
    /\ pc \in {"dqbuf", "qbuf"} => streaming

\* C10: when stream-on is issued every buffer of the pool is device-owned.
C10_AllQueuedAtStreamOn ==
    pc = "streamon" => \A k \in 0 .. Len(buffers) - 1 : owner[k] = "device"

\* C11: the discrete frame-size loop ends with the driver's list: it receives
\* at most one answer per entry the driver has, so it is never about to ask
\* again after more successful answers than there are entries.
C11_EnumerationEndsWithList ==
    pc = "enum_next" => idx <= NumSizes

\* C12 (as claimed): the pool never maps more buffers than the ReqCount it
\* asked for, and the mapped indices are pairwise distinct and below the
\* count the driver wrote back.
C12_PoolWithinRequested ==
    /\ Len(buffers) <= ReqCount
    /\ \A j, k \in 1 .. Len(buffers) : j # k => buffers[j].start # buffers[k].start
    /\ \A k \in 1 .. Len(buffers) : buffers[k].start < req_count

\* C12 (amended): the pool never maps more buffers than the count the driver
\* wrote back into req.count, which may exceed the requested count, and the
\* mapped indices are pairwise distinct and below that count.
C12_PoolWithinReturned ==
    /\ Len(buffers) <= req_count
    /\ \A j, k \in 1 .. Len(buffers) : j # k => buffers[j].start # buffers[k].start
    /\ \A k \in 1 .. Len(buffers) :
         buffers[k].start < req_count /\ buffers[k].start < devCount

\* the driver granted more than requested and every granted buffer is mapped
C12_Witness ==
    req_count > ReqCount /\ Len(buffers) = req_count /\ pc = "qbuf_all"

\* VIDIOC_REQBUFS succeeded and the driver wrote back fewer buffers than asked
SmallerCount ==
    /\ "REQBUFS" \in issued /\ pc # "reqbufs"
    /\ devCount = req_count /\ req_count < ReqCount

\* what the program does with a pool of req_count buffers: it maps and queues
\* only indices below req_count, has queued all of them when it streams on,
\* ends a failure-free run after FrameCount dequeue/re-enqueue pairs, and is
\* kept from teardown by nothing but a failed mmap or a failed sink
UsesActualCount ==
    /\ Len(buffers) <= req_count
    /\ \A k \in 1 .. Len(buffers) : buffers[k].start < req_count
    /\ \A s \in Slots : s >= req_count => owner[s] = "free"
    /\ (pc = "streamon" /\ failed = "none") =>
           \A s \in 0 .. req_count - 1 : owner[s] = "device"
    /\ (pc = "done" /\ failed = "none") =>
           (dqCount = FrameCount /\ qCount = FrameCount /\ "STREAMOFF" \in issued)
    /\ pc = "panicked" => panic \in {"mmap", "create", "write"}

WaitRequests == {"SELECT", "POLL"}

\* positions of main() inside the capture loop
LoopPcs == {"dqbuf", "sink_create", "sink_header", "sink_data", "qbuf"}

UserOwned == { s \in Slots : owner[s] = "user" }

DeviceOwned == { s \in Slots : owner[s] = "device" }

\* C14: a dequeue-buffer request is issued only after a readiness wait on the
\* descriptor has been issued.
C14_WaitBeforeDequeue ==
    "DQBUF" \in issued => issued \cap WaitRequests # {}

\* C15: a failure of the frame sink (creating or writing the output file)
\* does not end the program: main never panics in the sink.
C15_SinkFailureContinues ==
    pc = "panicked" => panic \notin {"create", "write"}

\* C16: a width or height answer that differs from 640x480 does not fail the
\* negotiation, and a header that has been written carries the width and
\* height of the driver's answer.
C16_HeaderUsesNegotiatedSize ==
    devFmt # NoFormat =>
        /\ (devFmt.pixelformat = V4L2_PIX_FMT_RGB24) => panic # "format"
        /\ header # NoHeader =>
               header = << "P6", devFmt.width, devFmt.height, 255 >>

\* a header written after the driver substituted 320x240
C16_Witness ==
    /\ pc = "sink_data" /\ header # NoHeader
    /\ devFmt # NoFormat /\ devFmt.width # ReqWidth /\ devFmt.height # ReqHeight

\* C17: the raw bytes written after the header of a frame are exactly
\* width*height*3 of the negotiated format.
C17_FrameBytesWritten ==
    pc = "qbuf" => SliceLen(buf) = ImageBytes(fmt)

\* C18: when the sink is about to read, the index left by the dequeue is
\* below the number of mapped buffers, that buffer is mapped, and the slice
\* is no longer than the buffer.
C18_ReadInsideMappedBuffer ==
    pc = "sink_data" =>
        /\ buf.index < Len(buffers)
        /\ buffers[buf.index + 1].start \in mapped
        /\ SliceLen(buf) <= buffers[buf.index + 1].length

\* C19: in the capture loop at most one buffer is user-owned and every mapped
\* buffer is either device-owned or user-owned; none is user-owned when
\* stream-off is issued.
C19_OwnershipCount ==
    /\ pc \in LoopPcs \cup {"streamoff"} =>
          /\ Cardinality(UserOwned) <= 1
          /\ Cardinality(DeviceOwned) + Cardinality(UserOwned) = Len(buffers)
    /\ pc = "streamoff" => UserOwned = {}

\* C20: the capture loop makes FrameCount iterations, each one dequeue, sink
\* write, enqueue in that order, all between stream-on and stream-off, and a
\* run that leaves the loop is at stream-off with FrameCount dequeues and
\* FrameCount re-enqueues made.
C20_BoundedLoop ==
    /\ pc = "dqbuf" => (i < FrameCount /\ dqCount = i /\ qCount = i)
    /\ pc \in LoopPcs \ {"dqbuf"} => (i < FrameCount /\ dqCount = i + 1 /\ qCount = i)
    /\ pc \in LoopPcs => ("STREAMON" \in issued /\ "STREAMOFF" \notin issued)
    /\ pc \in TeardownPcs => (dqCount = FrameCount /\ qCount = FrameCount)
    /\ pc \notin LoopPcs \cup TeardownPcs \cup {"panicked"} => (dqCount = 0 /\ qCount = 0)

C20_Witness ==
    /\ pc = "streamoff" /\ "STREAMOFF" \notin issued /\ failed = "none"
    /\ dqCount = FrameCount /\ qCount = FrameCount
====
